---------------------------- MODULE Spec2Model ----------------------------
(***************************************************************************)
(* polylabel (src/polylabel.ts): pole of inaccessibility of a polygon by a *)
(* best-first quadtree search over square cells.                           *)
(*                                                                         *)
(* Numbers.  The program computes in IEEE doubles; the model computes in   *)
(* exact real arithmetic.  Coordinates, half sizes, squared distances and  *)
(* the precision are rationals [n, d] in lowest terms.  Math.sqrt and      *)
(* Math.SQRT2 are kept symbolic: a distance d and a potential max are      *)
(* finite sums of rational multiples of square roots of square-free        *)
(* integers ("surds"), compared exactly.                                   *)
(***************************************************************************)
EXTENDS Integers, Sequences, FiniteSets, Bags, TLC

-----------------------------------------------------------------------------
(* Rational numbers                                                        *)

Abs(i) == IF i < 0 THEN -i ELSE i

Sgn(i) == IF i > 0 THEN 1 ELSE IF i < 0 THEN -1 ELSE 0

MinOf(S) == IF S = {} THEN 0 ELSE CHOOSE m \in S : \A o \in S : m <= o

MaxOf(S) == IF S = {} THEN 0 ELSE CHOOSE m \in S : \A o \in S : m >= o

RECURSIVE Gcd(_, _)
Gcd(a, b) == IF b = 0 THEN a ELSE Gcd(b, a % b)

\* n/d with a positive denominator, for a common divisor g of n and d
Reduced(n, d, g) ==
    IF d < 0 THEN [n |-> (-n) \div g, d |-> (-d) \div g]
    ELSE [n |-> n \div g, d |-> d \div g]

\* n/d in lowest terms with a positive denominator (d # 0)
Rat(n, d) == Reduced(n, d, Gcd(Abs(n), Abs(d)))

RInt(i) == [n |-> i, d |-> 1]

RAdd(a, b) == Rat(a.n * b.d + b.n * a.d, a.d * b.d)

RSub(a, b) == Rat(a.n * b.d - b.n * a.d, a.d * b.d)

RMul(a, b) == Rat(a.n * b.n, a.d * b.d)

RDiv(a, b) == Rat(a.n * b.d, a.d * b.n)

RLt(a, b) == a.n * b.d < b.n * a.d

RGt(a, b) == RLt(b, a)

RLe(a, b) == ~RLt(b, a)

-----------------------------------------------------------------------------
(* Surds: finite sums  c1*sqrt(m1) + ... + ck*sqrt(mk)  with rational      *)
(* ci # 0 and distinct square-free mi, as sets of terms [c, m].  Square    *)
(* roots of distinct square-free integers are linearly independent over    *)
(* the rationals, so the representation is canonical: two surds are equal  *)
(* as numbers iff they are equal as sets.                                  *)

\* the largest k with k*k dividing a (a > 0), searching from k
RECURSIVE SquarePart(_, _)
SquarePart(a, k) ==
    IF k * k > a THEN 1
    ELSE IF a % (k * k) = 0 THEN k * SquarePart(a \div (k * k), k)
    ELSE SquarePart(a, k + 1)

\* k * sqrt(m) / d, for k > 0
Term(k, d, m) == {[c |-> Rat(k, d), m |-> m]}

\* sqrt(a) / d for an integer a > 0 of square part k
Root(a, d, k) == Term(k, d, a \div (k * k))

\* Math.sqrt of a rational r >= 0:  sqrt(n/d) = sqrt(n*d) / d
Sqrt(r) == IF r.n = 0 THEN {} ELSE Root(r.n * r.d, r.d, SquarePart(r.n * r.d, 2))

SRat(r) == IF r.n = 0 THEN {} ELSE {[c |-> r, m |-> 1]}

SScale(r, s) == IF r.n = 0 THEN {} ELSE {[c |-> RMul(r, t.c), m |-> t.m] : t \in s}

SNeg(s) == {[c |-> Rat(-t.c.n, t.c.d), m |-> t.m] : t \in s}

SCoef(s, m) == IF \E t \in s : t.m = m THEN (CHOOSE t \in s : t.m = m).c ELSE RInt(0)

NonZero(s) == {u \in s : u.c.n # 0}

SAdd(s, t) ==
    NonZero({[c |-> RAdd(SCoef(s, m), SCoef(t, m)), m |-> m] : m \in {u.m : u \in s \cup t}})

SSub(s, t) == SAdd(s, SNeg(t))

\* sign of sqrt(x) + sqrt(y) - sqrt(z), for integers x, y, z >= 0
Cmp21(x, y, z) ==
    LET K == z - x - y
    IN  IF K < 0 THEN 1 ELSE Sgn(4 * x * y - K * K)

\* sign of sqrt(x) + sqrt(y) - sqrt(z) - sqrt(w)
Cmp22(x, y, z, w) ==
    LET K == x + y - z - w
    IN  IF K >= 0 THEN Cmp21(K * K, 4 * x * y, 4 * z * w)
        ELSE -Cmp21(K * K, 4 * z * w, 4 * x * y)

\* sign of sqrt(x) + sqrt(y) + sqrt(z) - sqrt(w), for x, y, z > 0
Cmp31(x, y, z, w) ==
    LET K == w + z - x - y
    IN  IF w <= z \/ K <= 0 THEN 1 ELSE Cmp21(4 * x * y, 4 * w * z, K * K)

RECURSIVE Lcm(_)
Lcm(S) ==
    IF S = {} THEN 1
    ELSE LET a == CHOOSE a \in S : TRUE
             l == Lcm(S \ {a})
         IN  (a * l) \div Gcd(a, l)

\* the floor of the square root of n, given s <= sqrt(n) < s + 2
Closer(n, s) == IF (s + 1) * (s + 1) <= n THEN s + 1 ELSE s

\* floor of the square root of n >= 0
RECURSIVE ISqrt(_)
ISqrt(n) == IF n < 2 THEN n ELSE Closer(n, 2 * ISqrt(n \div 4))

\* a power of 4 by which v >= 1 can be multiplied and stay below 2^30
RECURSIVE Room(_)
Room(v) == IF v >= 268435456 THEN 1 ELSE 4 * Room(4 * v)

\* the sum of floor(sqrt(v * f)) over v in S
RECURSIVE FloorSum(_, _)
FloorSum(S, f) ==
    IF S = {} THEN 0
    ELSE ISqrt((CHOOSE v \in S : TRUE) * f) + FloorSum(S \ {CHOOSE v \in S : TRUE}, f)

\* the elements of a set of integers in increasing order
RECURSIVE Sorted(_)
Sorted(S) ==
    IF S = {} THEN <<>>
    ELSE <<CHOOSE v \in S : \A w \in S : v <= w>>
            \o Sorted(S \ {CHOOSE v \in S : \A w \in S : v <= w})

\* the exact sign of  (sum of sqrt(p[i])) - (sum of sqrt(n[j]))  for sequences
\* of positive integers with at most four elements together
ExactSeq(p, n) ==
    CASE Len(p) = 0 /\ Len(n) = 0 -> 0
      [] Len(p) > 0 /\ Len(n) = 0 -> 1
      [] Len(p) = 0 /\ Len(n) > 0 -> -1
      [] Len(p) = 1 /\ Len(n) = 1 -> Sgn(p[1] - n[1])
      [] Len(p) = 2 /\ Len(n) = 1 -> Cmp21(p[1], p[2], n[1])
      [] Len(p) = 1 /\ Len(n) = 2 -> -Cmp21(n[1], n[2], p[1])
      [] Len(p) = 2 /\ Len(n) = 2 -> Cmp22(p[1], p[2], n[1], n[2])
      [] Len(p) = 3 /\ Len(n) = 1 -> Cmp31(p[1], p[2], p[3], n[1])
      [] Len(p) = 1 /\ Len(n) = 3 -> -Cmp31(n[1], n[2], n[3], p[1])

\* the sign of  (sum of sqrt(v), v in P) - (sum of sqrt(v), v in N) : read off
\* integer bounds of the square roots scaled by sqrt(f) where these decide it,
\* computed by repeated squaring where they do not
Decide(P, N, f) ==
    IF FloorSum(P, f) - (FloorSum(N, f) + Cardinality(N)) > 0 THEN 1
    ELSE IF (FloorSum(P, f) + Cardinality(P)) - FloorSum(N, f) < 0 THEN -1
    ELSE ExactSeq(Sorted(P), Sorted(N))

\* the integers V with  Q * s = sum of sqrt(V)  over the terms of s of sign sg
Squares(s, Q, sg) ==
    {(t.c.n * (Q \div t.c.d)) * (t.c.n * (Q \div t.c.d)) * t.m : t \in {u \in s : Sgn(u.c.n) = sg}}

SignQ(s, Q) ==
    Decide(Squares(s, Q, 1), Squares(s, Q, -1),
           Room(MaxOf(Squares(s, Q, 1) \cup Squares(s, Q, -1))))

\* the sign (-1, 0, 1) of the number a surd denotes
SSign(s) == IF s = {} THEN 0 ELSE SignQ(s, Lcm({t.c.d : t \in s}))

SGt(s, t) == SSign(SSub(s, t)) > 0

SLe(s, t) == SSign(SSub(s, t)) <= 0

SGe(s, t) == SSign(SSub(s, t)) >= 0

Zero == {}

SQRT2 == Sqrt(RInt(2))

-----------------------------------------------------------------------------
(* Geometry (polylabel.ts 91-168).  A polygon is a sequence of rings, a    *)
(* ring a sequence of points <<x, y>> with integer coordinates; p[1] is    *)
(* the source's p[0], p[2] its p[1].                                       *)

Sq(v) == RMul(v, v)

\* dx * dx + dy * dy for dx = px - x, dy = py - y (lines 164-167)
DistSq(px, py, x, y) == RAdd(Sq(RSub(px, x)), Sq(RSub(py, y)))

\* lines 154-161: the point of the segment closest to (px, py), given t
Clamped(px, py, x, y, bx, by, dx, dy, t) ==
    IF RGt(t, RInt(1)) THEN DistSq(px, py, bx, by)
    ELSE IF RGt(t, RInt(0))
    THEN DistSq(px, py, RAdd(x, RMul(dx, t)), RAdd(y, RMul(dy, t)))
    ELSE DistSq(px, py, x, y)

\* lines 152-167 for the segment from (x, y) to (bx, by) = (x + dx, y + dy)
SegDistSq(px, py, x, y, bx, by, dx, dy) ==
    IF dx.n # 0 \/ dy.n # 0
    THEN Clamped(px, py, x, y, bx, by, dx, dy,
                 RDiv(RAdd(RMul(RSub(px, x), dx), RMul(RSub(py, y), dy)),
                      RAdd(RMul(dx, dx), RMul(dy, dy))))
    ELSE DistSq(px, py, x, y)

\* get squared distance from a point to a segment
getSegDistSq(px, py, a, b) ==
    SegDistSq(px, py, RInt(a[1]), RInt(a[2]), RInt(b[1]), RInt(b[2]),
              RInt(b[1] - a[1]), RInt(b[2] - a[2]))

\* the loop indices of pointToPolygonDist: ring k and vertex i
Edges(polygon) ==
    UNION {{<<k, i>> : i \in 1..Len(polygon[k])} : k \in DOMAIN polygon}

\* j of the loops "for (i = 0, j = len - 1; i < len; j = i++)"
Prev(ring, i) == IF i = 1 THEN Len(ring) ELSE i - 1

\* the ray-casting condition of one edge a-b for the point (x, y)
Crosses(x, y, a, b) ==
    /\ RGt(RInt(a[2]), y) # RGt(RInt(b[2]), y)
    /\ RLt(x, RAdd(RDiv(RMul(RInt(b[1] - a[1]), RSub(y, RInt(a[2]))),
                        RInt(b[2] - a[2])),
                   RInt(a[1])))

\* the least of a non-empty set of rationals
RMinOf(S) == CHOOSE m \in S : \A o \in S : RLe(m, o)

\* line 122
Signed(inside, minDistSq) ==
    IF minDistSq.n = 0 THEN Zero
    ELSE IF inside THEN Sqrt(minDistSq) ELSE SNeg(Sqrt(minDistSq))

\* the vertices a = ring[i] and b = ring[j] of the edge e = <<k, i>>
EdgeA(polygon, e) == polygon[e[1]][e[2]]

EdgeB(polygon, e) == polygon[e[1]][Prev(polygon[e[1]], e[2])]

\* ray casting over the outer ring alone, as if the polygon had no holes
InsideOuterRing(x, y, polygon) ==
    Cardinality({e \in {f \in Edges(polygon) : f[1] = 1} :
                    Crosses(x, y, EdgeA(polygon, e), EdgeB(polygon, e))}) % 2 = 1

\* "inside = !inside" once per crossing edge, starting from false
Inside(x, y, polygon) ==
    Cardinality({e \in Edges(polygon) :
                    Crosses(x, y, EdgeA(polygon, e), EdgeB(polygon, e))}) % 2 = 1

\* Math.min over all edges, starting from Infinity
MinDistSq(x, y, polygon) ==
    RMinOf({getSegDistSq(x, y, EdgeA(polygon, e), EdgeB(polygon, e)) : e \in Edges(polygon)})

\* signed distance from point to polygon outline (negative if point is outside)
pointToPolygonDist(x, y, polygon) ==
    Signed(Inside(x, y, polygon), MinDistSq(x, y, polygon))

Cell(x, y, h, pointDist) ==
    [x |-> x, y |-> y, h |-> h, d |-> pointDist, max |-> SAdd(pointDist, SScale(h, SQRT2))]

createCell(x, y, h, polygon) == Cell(x, y, h, pointToPolygonDist(x, y, polygon))

\* the sum of a sequence of numbers
RECURSIVE RSum(_)
RSum(terms) == IF terms = <<>> THEN RInt(0) ELSE RAdd(Head(terms), RSum(Tail(terms)))

\* line 141-142
Centroid(x, y, area, points, polygon) ==
    IF area.n = 0
    THEN createCell(RInt(points[1][1]), RInt(points[1][2]), RInt(0), polygon)
    ELSE createCell(RDiv(x, area), RDiv(y, area), RInt(0), polygon)

\* f of line 136 for a = points[i], b = points[j]
Cross(points, i) ==
    points[i][1] * points[Prev(points, i)][2] - points[Prev(points, i)][1] * points[i][2]

\* get polygon centroid
getCentroidCell(polygon) ==
    LET points == polygon[1]
        fx == [i \in DOMAIN points |->
                  RInt((points[i][1] + points[Prev(points, i)][1]) * Cross(points, i))]
        fy == [i \in DOMAIN points |->
                  RInt((points[i][2] + points[Prev(points, i)][2]) * Cross(points, i))]
        f3 == [i \in DOMAIN points |-> RInt(Cross(points, i) * 3)]
    IN  Centroid(RSum(fx), RSum(fy), RSum(f3), points, polygon)

\* compareMax(a, b) = b.max - a.max, of which the queue uses the sign
compareMax(a, b) == SSign(SSub(b.max, a.max))

-----------------------------------------------------------------------------
(* The inputs of the model                                                 *)

\* the largest precision argument tried
MaxPrecision == 3

\* the search is followed down to cells MaxDepth halvings below the initial
\* ones; runs with a positive precision end before they get there
MaxDepth == 3

Square    == << << <<0, 0>>, <<0, 4>>, <<4, 4>>, <<4, 0>> >> >>
Holed     == << << <<0, 0>>, <<0, 4>>, <<4, 4>>, <<4, 0>> >>,
                << <<1, 1>>, <<1, 3>>, <<3, 3>>, <<3, 1>> >> >>
LShape    == << << <<0, 0>>, <<4, 0>>, <<4, 2>>, <<2, 2>>, <<2, 4>>, <<0, 4>> >> >>
UShape    == << << <<0, 0>>, <<4, 0>>, <<4, 4>>, <<3, 4>>, <<3, 1>>, <<1, 1>>,
                   <<1, 4>>, <<0, 4>> >> >>
Wide      == << << <<-1, 1>>, <<2, 1>>, <<2, 3>>, <<-1, 3>> >> >>
Triangle  == << << <<0, 0>>, <<4, 0>>, <<0, 4>> >> >>
Collinear == << << <<0, 0>>, <<1, 0>>, <<2, 0>> >> >>
Vertical  == << << <<1, 2>>, <<1, -1>>, <<1, 0>> >> >>
OnePoint  == << << <<3, 2>> >> >>

Polygons ==
    {Square, Holed, LShape, UShape, Wide, Triangle, Collinear, Vertical, OnePoint}

\* the precision argument: <<>> when the caller gives none, else <<number>>;
\* the numbers are -1 and the halves from 0 to MaxPrecision
PrecisionArgs ==
    {<<>>, <<RInt(-1)>>} \cup {<<Rat(p, 2)>> : p \in 0..(2 * MaxPrecision)}

-----------------------------------------------------------------------------
(* polylabel (polylabel.ts 8-77)                                           *)

DefaultPrecision == 1

\* precision ?? 1.0 : the default for a missing argument only
PrecisionIfNullish(arg) ==
    IF arg = <<>> THEN RInt(DefaultPrecision) ELSE arg[1]

\* precision = precision || 1.0 : undefined and 0 are falsy
Precision(arg) ==
    IF arg = <<>> \/ arg[1].n = 0 THEN RInt(DefaultPrecision) ELSE arg[1]

\* find the bounding box of the outer ring
BBox(polygon) ==
    LET xs == {polygon[1][i][1] : i \in 1..Len(polygon[1])}
        ys == {polygon[1][i][2] : i \in 1..Len(polygon[1])}
    IN  [minX |-> MinOf(xs), minY |-> MinOf(ys), maxX |-> MaxOf(xs), maxY |-> MaxOf(ys)]

Width(polygon) == BBox(polygon).maxX - BBox(polygon).minX

Height(polygon) == BBox(polygon).maxY - BBox(polygon).minY

CellSize(polygon) ==
    IF Width(polygon) < Height(polygon) THEN Width(polygon) ELSE Height(polygon)

\* the values v takes in "for (v = from; v + step <= to; v += step)": only
\* the cells that lie within the bounding box
RECURSIVE StepsWithin(_, _, _)
StepsWithin(from, to, step) ==
    IF from + step <= to THEN <<from>> \o StepsWithin(from + step, to, step) ELSE <<>>

\* the values v takes in "for (v = from; v < to; v += step)", in order (step > 0)
RECURSIVE Steps(_, _, _)
Steps(from, to, step) ==
    IF from < to THEN <<from>> \o Steps(from + step, to, step) ELSE <<>>

\* cover polygon with initial cells: the cells of lines 34-38 in the order made
InitialCells(polygon) ==
    LET bb       == BBox(polygon)
        cellSize == CellSize(polygon)
        h        == Rat(cellSize, 2)
        xs       == Steps(bb.minX, bb.maxX, cellSize)
        ys       == Steps(bb.minY, bb.maxY, cellSize)
    IN  [n \in 1..(Len(xs) * Len(ys)) |->
            createCell(RAdd(RInt(xs[((n - 1) \div Len(ys)) + 1]), h),
                       RAdd(RInt(ys[((n - 1) % Len(ys)) + 1]), h), h, polygon)]

\* second guess: bounding box centroid
BBoxCell(polygon) ==
    LET bb == BBox(polygon)
    IN  createCell(RAdd(RInt(bb.minX), Rat(Width(polygon), 2)),
                   RAdd(RInt(bb.minY), Rat(Height(polygon), 2)), RInt(0), polygon)

\* the update with >= in place of > : a cell as good as the best replaces it
BetterOrEqual(cell, bestCell) == IF SGe(cell.d, bestCell.d) THEN cell ELSE bestCell

\* update the best cell if we found a better one (lines 45 and 54-55)
Better(cell, bestCell) == IF SGt(cell.d, bestCell.d) THEN cell ELSE bestCell

\* take centroid as the first best guess, the bounding box centroid as the second
FirstBest(polygon) == Better(BBoxCell(polygon), getCentroidCell(polygon))

\* TinyQueue (line 1), the binary heap polylabel keeps its cells in: data is
\* the heap array, data[1] its top, the children of data[i] are data[2i] and
\* data[2i+1], and compare is compareMax.
RECURSIVE HeapUp(_, _, _)
HeapUp(data, pos, item) ==
    IF pos > 1 /\ compareMax(item, data[pos \div 2]) < 0
    THEN HeapUp([data EXCEPT ![pos] = data[pos \div 2]], pos \div 2, item)
    ELSE [data EXCEPT ![pos] = item]

RECURSIVE HeapDown(_, _, _)
HeapDown(data, pos, item) ==
    IF pos <= Len(data) \div 2
    THEN LET left  == 2 * pos
             right == left + 1
             bestChild == IF right <= Len(data) /\ compareMax(data[right], data[left]) < 0
                          THEN right ELSE left
         IN  IF compareMax(data[bestChild], item) >= 0
             THEN [data EXCEPT ![pos] = item]
             ELSE HeapDown([data EXCEPT ![pos] = data[bestChild]], bestChild, item)
    ELSE [data EXCEPT ![pos] = item]

\* cellQueue.push(item)
Push(data, item) == HeapUp(Append(data, item), Len(data) + 1, item)

\* cellQueue.push of the cells of a sequence, one after the other
RECURSIVE PushAll(_, _)
PushAll(data, items) ==
    IF items = <<>> THEN data ELSE PushAll(Push(data, Head(items)), Tail(items))

\* cellQueue.pop() returns data[1] and leaves Pop(data)
Pop(data) ==
    LET bottom == data[Len(data)]
        rest   == SubSeq(data, 1, Len(data) - 1)
    IN  IF rest = <<>> THEN rest ELSE HeapDown(rest, 1, bottom)

NoCell == [x |-> RInt(0), y |-> RInt(0), h |-> RInt(0), d |-> Zero, max |-> Zero]

NoResult == [position |-> <<>>, distance |-> Zero]

\* the state of a call before its first statement
Called ==
    [pc |-> "call", precision |-> RInt(0), cellQueue |-> <<>>, bestCell |-> NoCell,
     numProbes |-> 0, log |-> <<>>, result |-> NoResult]

\* lines 31-47: the queue of the initial cells and the first best cell
Seeded(precision, cellQueue, bestCell) ==
    [Called EXCEPT !.pc = "loop", !.precision = precision, !.cellQueue = cellQueue,
                   !.bestCell = bestCell, !.numProbes = Len(cellQueue)]

\* the early return with the other corner of the bounding box
DegenerateAtMax(precision, bb) ==
    [Called EXCEPT !.pc = "done", !.precision = precision,
                   !.result = [position |-> <<RInt(bb.maxX), RInt(bb.maxY)>>,
                               distance |-> Zero]]

\* lines 26-28: the early return of a degenerate bounding box
Degenerate(precision, bb) ==
    [Called EXCEPT !.pc = "done", !.precision = precision,
                   !.result = [position |-> <<RInt(bb.minX), RInt(bb.minY)>>,
                               distance |-> Zero]]

\* lines 9-47
Start(polygon, arg) ==
    IF CellSize(polygon) = 0
    THEN Degenerate(Precision(arg), BBox(polygon))
    ELSE Seeded(Precision(arg), PushAll(<<>>, InitialCells(polygon)), FirstBest(polygon))

\* the test on the distance of the centre, without the radius of the cell
NoChanceOfCentre(cell, bestCell, precision) ==
    SLe(SSub(cell.d, bestCell.d), SRat(precision))

\* the test without the precision: only cells that cannot beat the best
NoChanceExact(cell, bestCell, precision) ==
    SLe(SSub(cell.max, bestCell.d), Zero)

\* do not drill down further if there's no chance of a better solution
NoChance(cell, bestCell, precision) ==
    SLe(SSub(cell.max, bestCell.d), SRat(precision))

\* the four cells at the right centres but of the size of the cell itself
ChildrenOfFullSize(cell, polygon) ==
    LET h == RDiv(cell.h, RInt(2))
    IN  << createCell(RSub(cell.x, h), RSub(cell.y, h), cell.h, polygon),
           createCell(RAdd(cell.x, h), RSub(cell.y, h), cell.h, polygon),
           createCell(RSub(cell.x, h), RAdd(cell.y, h), cell.h, polygon),
           createCell(RAdd(cell.x, h), RAdd(cell.y, h), cell.h, polygon) >>

\* split the cell into four cells
Children(cell, polygon) ==
    LET h == RDiv(cell.h, RInt(2))
    IN  << createCell(RSub(cell.x, h), RSub(cell.y, h), h, polygon),
           createCell(RAdd(cell.x, h), RSub(cell.y, h), h, polygon),
           createCell(RSub(cell.x, h), RAdd(cell.y, h), h, polygon),
           createCell(RAdd(cell.x, h), RAdd(cell.y, h), h, polygon) >>

\* line 56
Logged(log, debug, found, cell, numProbes) ==
    IF debug /\ found THEN Append(log, <<"found best", cell.d, numProbes>>) ELSE log

\* lines 59-68 for the popped cell, the queue it left and the updated best cell
Expanded(r, cell, rest, bestCell, polygon) ==
    IF NoChance(cell, bestCell, r.precision)
    THEN [r EXCEPT !.cellQueue = rest, !.bestCell = bestCell]
    ELSE [r EXCEPT !.cellQueue = PushAll(rest, Children(cell, polygon)),
                   !.bestCell = bestCell, !.numProbes = r.numProbes + 4]

\* an iteration with the update of the best cell inside "if (debug)"
IterationWhenDebug(r, polygon, debug) ==
    [Expanded(r, r.cellQueue[1], Pop(r.cellQueue),
              IF debug THEN Better(r.cellQueue[1], r.bestCell) ELSE r.bestCell, polygon)
        EXCEPT !.log = Logged(r.log, debug, SGt(r.cellQueue[1].d, r.bestCell.d),
                              r.cellQueue[1], r.numProbes)]

\* one iteration of the loop (lines 49-69)
Iteration(r, polygon, debug) ==
    [Expanded(r, r.cellQueue[1], Pop(r.cellQueue), Better(r.cellQueue[1], r.bestCell), polygon)
        EXCEPT !.log = Logged(r.log, debug, SGt(r.cellQueue[1].d, r.bestCell.d),
                              r.cellQueue[1], r.numProbes)]

\* lines 71-76, after the loop
Finish(r, debug) ==
    [r EXCEPT !.pc = "done",
              !.log = IF debug
                      THEN r.log \o << <<"num probes", r.numProbes>>,
                                       <<"best distance", r.bestCell.d>> >>
                      ELSE r.log,
              !.result = [position |-> <<r.bestCell.x, r.bestCell.y>>,
                          distance |-> r.bestCell.d]]

\* the loop of lines 49-69, run until the queue is empty
RECURSIVE Loop(_, _, _)
Loop(r, polygon, debug) ==
    IF r.cellQueue = <<>> THEN r ELSE Loop(Iteration(r, polygon, debug), polygon, debug)

\* the call from its first statement to its return
polylabel(polygon, arg, debug) ==
    IF CellSize(polygon) = 0 THEN Start(polygon, arg)
    ELSE Finish(Loop(Start(polygon, arg), polygon, debug), debug)

-----------------------------------------------------------------------------
(* One call of polylabel as a state machine.  run is the call, twin the    *)
(* same call with the other value of debug, stepped together with it.      *)
(* pushed, popped and discarded record what the call has done: the cells   *)
(* pushed to and popped from the queue (bags), and those popped and not    *)
(* split.  probe and probed are a point and the value pointToPolygonDist   *)
(* returns for it, for the behaviours that call that function alone.       *)

VARIABLES polygon, precisionArg, debug, run, twin, pushed, popped, discarded,
          probe, probed

vars == <<polygon, precisionArg, debug, run, twin, pushed, popped, discarded,
          probe, probed>>

NoProbe == <<>>

Init ==
    /\ polygon \in Polygons
    /\ precisionArg \in PrecisionArgs
    /\ debug \in BOOLEAN
    /\ run = Called
    /\ twin = Called
    /\ pushed = EmptyBag
    /\ popped = EmptyBag
    /\ discarded = {}
    /\ probe = NoProbe
    /\ probed = NoProbe

SeqToBag(q) == [c \in {q[i] : i \in DOMAIN q} |-> Cardinality({i \in DOMAIN q : q[i] = c})]

\* lines 9-47
Call ==
    /\ run.pc = "call"
    /\ run' = Start(polygon, precisionArg)
    /\ twin' = Start(polygon, precisionArg)
    /\ pushed' = SeqToBag(run'.cellQueue)
    /\ UNCHANGED <<polygon, precisionArg, debug, popped, discarded, probe, probed>>

\* the twin's iteration
TwinIteration ==
    twin' = IF twin.pc = "loop" /\ twin.cellQueue # <<>>
            THEN Iteration(twin, polygon, ~debug) ELSE twin

\* what an iteration leaves in the records
Recorded ==
    LET cell == run.cellQueue[1]
        new  == SeqToBag(run'.cellQueue) (-) SeqToBag(run.cellQueue)
    IN  /\ popped' = popped (+) SetToBag({cell})
        /\ pushed' = pushed (+) new
        /\ discarded' = IF new = EmptyBag THEN discarded \cup {cell} ELSE discarded

\* "continue" at line 60 for the cell on top of the queue
Pruned(r) ==
    NoChance(r.cellQueue[1], Better(r.cellQueue[1], r.bestCell), r.precision)

\* a loop iteration that ends at "continue" (line 60)
Discard ==
    /\ run.pc = "loop"
    /\ run.cellQueue # <<>>
    /\ Pruned(run)
    /\ run' = Iteration(run, polygon, debug)
    /\ TwinIteration
    /\ Recorded
    /\ UNCHANGED <<polygon, precisionArg, debug, probe, probed>>

RECURSIVE Pow2(_)
Pow2(k) == IF k = 0 THEN 1 ELSE 2 * Pow2(k - 1)

\* the cell is MaxDepth halvings below the initial cells, whose h is cellSize / 2
Deepest(cell) ==
    RLe(RMul(cell.h, RInt(2 * Pow2(MaxDepth))), RInt(CellSize(polygon)))

\* a loop iteration that splits the cell (lines 62-68)
Split ==
    /\ run.pc = "loop"
    /\ run.cellQueue # <<>>
    /\ ~Deepest(run.cellQueue[1])
    /\ ~Pruned(run)
    /\ run' = Iteration(run, polygon, debug)
    /\ TwinIteration
    /\ Recorded
    /\ UNCHANGED <<polygon, precisionArg, debug, probe, probed>>

\* the loop ends on the empty queue (line 49) and the call returns (71-76)
Return ==
    /\ run.pc = "loop"
    /\ run.cellQueue = <<>>
    /\ run' = Finish(run, debug)
    /\ twin' = IF twin.pc = "loop" /\ twin.cellQueue = <<>>
               THEN Finish(twin, ~debug) ELSE twin
    /\ UNCHANGED <<polygon, precisionArg, debug, pushed, popped, discarded, probe, probed>>

Next == Call \/ Discard \/ Split \/ Return

Spec == Init /\ [][Next]_vars

-----------------------------------------------------------------------------
(* pointToPolygonDist called alone, on the points of a lattice around the  *)
(* polygons: Grid points per unit, from -Around to Extent on both axes.    *)

Grid == 2

Around == 2

Extent == 5

Lattice(minX, minY, maxX, maxY) ==
    {<<Rat(i, Grid), Rat(j, Grid)>> : i \in (Grid * minX)..(Grid * maxX),
                                      j \in (Grid * minY)..(Grid * maxY)}

DistInit ==
    /\ polygon \in Polygons
    /\ probe \in Lattice(-Around, -Around, Extent, Extent)
    /\ probed = NoProbe
    /\ precisionArg = <<>>
    /\ debug = FALSE
    /\ run = Called
    /\ twin = Called
    /\ pushed = EmptyBag
    /\ popped = EmptyBag
    /\ discarded = {}

\* lines 102-123
Measure ==
    /\ probed = NoProbe
    /\ probed' = <<pointToPolygonDist(probe[1], probe[2], polygon)>>
    /\ UNCHANGED <<polygon, precisionArg, debug, run, twin, pushed, popped, discarded, probe>>

DistSpec == DistInit /\ [][Measure]_vars

-----------------------------------------------------------------------------
(* Properties of a call.                                                   *)

NonDegenerate == CellSize(polygon) # 0

Searching == run.pc = "loop" /\ run.cellQueue # <<>>

Returned == run.pc = "done"

\* the point q lies in the closed square of the cell
InSquare(q, cell) ==
    /\ RLe(RSub(cell.x, cell.h), q[1]) /\ RLe(q[1], RAdd(cell.x, cell.h))
    /\ RLe(RSub(cell.y, cell.h), q[2]) /\ RLe(q[2], RAdd(cell.y, cell.h))

\* the lattice points of the bounding box of the polygon
BBoxLattice ==
    Lattice(BBox(polygon).minX, BBox(polygon).minY, BBox(polygon).maxX, BBox(polygon).maxY)

QueueCells == {run.cellQueue[i] : i \in DOMAIN run.cellQueue}

\* The radius of the largest circle inside each polygon, from its geometry.
\* Square: side 4, radius 2.  Wide: a 3 by 2 rectangle, radius 1.  Triangle:
\* legs 4 and hypotenuse 4*sqrt(2), inradius (4 + 4 - 4*sqrt(2)) / 2.  LShape:
\* the circle in the corner that touches x = 0, y = 0 and the reflex vertex
\* (2, 2) has centre (c, c) with (2 - c) * sqrt(2) = c, so c = 4 - 2*sqrt(2),
\* more than the radius 1 of the arms.  Holed and UShape: bands of width 1,
\* where the circle in a corner touches two sides and the reflex vertex
\* (1, 1), so (1 - c) * sqrt(2) = c and c = 2 - sqrt(2), more than 1/2.
Inradius(p) ==
    CASE p = Square -> SRat(RInt(2))
      [] p = Wide -> SRat(RInt(1))
      [] p \in {Triangle, LShape} -> SAdd(SRat(RInt(4)), SScale(RInt(-2), SQRT2))
      [] p \in {Holed, UShape} -> SAdd(SRat(RInt(2)), SScale(RInt(-1), SQRT2))
      [] OTHER -> Zero

\* the result distance plus the precision the call used
WithinPrecision == SAdd(run.result.distance, SRat(run.precision))

\* C1: when a call with a positive precision returns for a polygon with a
\* non-degenerate bounding box, no point has a signed distance to the polygon
\* greater than the returned distance plus the precision: neither the centre
\* of the largest inscribed circle nor any lattice point of the bounding box.
PrecisionBound ==
    (Returned /\ NonDegenerate /\ run.precision.n > 0) =>
        /\ SLe(Inradius(polygon), WithinPrecision)
        /\ \A q \in BBoxLattice :
              SLe(pointToPolygonDist(q[1], q[2], polygon), WithinPrecision)

\* a call that returned less than the inradius, within the precision of it
PrecisionBoundReached ==
    /\ Returned /\ polygon = Holed /\ run.precision = Rat(1, 2)
    /\ run.result.distance = SRat(Rat(1, 2))
    /\ SGt(Inradius(polygon), run.result.distance)
    /\ run.numProbes > Len(InitialCells(polygon))

\* C2: for a polygon with a non-degenerate bounding box and a positive
\* precision, the distance returned is never negative.
NeverOutside ==
    (Returned /\ NonDegenerate /\ run.precision.n > 0) =>
        SSign(run.result.distance) >= 0

\* the number of cells of the quadtree under a cell of half size h, cut where
\* h * sqrt(2) <= precision (for a positive precision)
RECURSIVE Subtree(_, _)
Subtree(h, precision) ==
    IF SLe(SScale(h, SQRT2), SRat(precision)) THEN 1
    ELSE 1 + 4 * Subtree(RDiv(h, RInt(2)), precision)

\* the number of pops the cells of a queue can still cause
RECURSIVE Work(_, _)
Work(cellQueue, precision) ==
    IF cellQueue = <<>> THEN 0
    ELSE Subtree(Head(cellQueue).h, precision) + Work(Tail(cellQueue), precision)

\* C3: with a positive precision the loop reaches the empty queue after
\* finitely many pops and the call returns.  No cell with h * sqrt(2) <=
\* precision is ever split, so every iteration lowers the number of pops the
\* queue can still cause, which is finite at the start: the pops made so far
\* and the pops still possible never exceed those possible at the start, every
\* cell in the queue is an initial cell or has 2 * h * sqrt(2) > precision, and
\* the cell on top can always be discarded or split within MaxDepth halvings.
SplitStep ==
    run.pc = "loop" /\ run'.pc = "loop" /\ Len(run'.cellQueue) > Len(run.cellQueue)

SmallCellsKept ==
    SplitStep => SGt(SScale(run.cellQueue[1].h, SQRT2), SRat(run.precision))

WorkDecreases ==
    (run.pc = "loop" /\ run'.pc = "loop" /\ run.precision.n > 0) =>
        Work(run'.cellQueue, run.precision) < Work(run.cellQueue, run.precision)

DepthBounded ==
    (run.pc = "loop" /\ run.precision.n > 0) =>
        /\ \A c \in QueueCells :
              \/ c.h = Rat(CellSize(polygon), 2)
              \/ SGt(SScale(RMul(RInt(2), c.h), SQRT2), SRat(run.precision))
        /\ BagCardinality(popped) + Work(run.cellQueue, run.precision)
              <= Work(Start(polygon, precisionArg).cellQueue, run.precision)
        /\ Searching => (Pruned(run) \/ ~Deepest(run.cellQueue[1]))

Terminates == [][SmallCellsKept /\ WorkDecreases]_vars /\ []DepthBounded

\* a call that split cells, threw the small ones away and returned
TerminatesReached ==
    /\ Returned /\ NonDegenerate /\ run.precision.n > 0
    /\ run.numProbes > Len(InitialCells(polygon))
    /\ BagCardinality(popped) = run.numProbes
    /\ \E c \in discarded : SLe(SScale(c.h, SQRT2), SRat(run.precision))

\* C4: when the width or the height of the bounding box of the outer ring is
\* zero, the call returns at once: the position is (minX, minY), the least
\* coordinates of the outer ring, the distance is 0, and no cell has been
\* queued, popped or made the best cell, whatever the precision argument.
DegenerateReturn ==
    (run.pc # "call" /\ ~NonDegenerate) =>
        /\ Returned
        /\ \E i \in DOMAIN polygon[1] : run.result.position[1] = RInt(polygon[1][i][1])
        /\ \E i \in DOMAIN polygon[1] : run.result.position[2] = RInt(polygon[1][i][2])
        /\ \A i \in DOMAIN polygon[1] :
              /\ RLe(run.result.position[1], RInt(polygon[1][i][1]))
              /\ RLe(run.result.position[2], RInt(polygon[1][i][2]))
        /\ run.result.distance = Zero
        /\ run.cellQueue = <<>> /\ run.bestCell = NoCell /\ run.numProbes = 0
        /\ pushed = EmptyBag /\ popped = EmptyBag /\ discarded = {}

\* the call returned for the vertical segment, with a negative precision
DegenerateReturnReached ==
    /\ Returned /\ polygon = Vertical /\ precisionArg = <<RInt(-1)>>
    /\ run.result.position = <<RInt(1), RInt(-1)>>

\* C5: the d of the best cell never decreases; the best cell is replaced only
\* by the cell just popped, and only if that cell's d is strictly greater; and
\* the best d is at least the d of the centroid seed, of the bounding-box
\* centre seed and of every cell popped so far.
BestKept ==
    (run.pc = "loop" /\ run'.pc = "loop") =>
        /\ SGe(run'.bestCell.d, run.bestCell.d)
        /\ run'.bestCell # run.bestCell =>
              /\ run'.bestCell = run.cellQueue[1]
              /\ SGt(run'.bestCell.d, run.bestCell.d)

BestAboveAll ==
    (run.pc # "call" /\ NonDegenerate) =>
        /\ SGe(run.bestCell.d, getCentroidCell(polygon).d)
        /\ SGe(run.bestCell.d, BBoxCell(polygon).d)
        /\ \A c \in BagToSet(popped) : SGe(run.bestCell.d, c.d)
        /\ Returned => run.result.distance = run.bestCell.d

MonotonicImprovement == [][BestKept]_vars /\ []BestAboveAll

\* the best cell has been replaced by a popped cell, and the call returned it
MonotonicImprovementReached ==
    /\ Returned /\ NonDegenerate
    /\ run.bestCell \in BagToSet(popped)
    /\ SGt(run.bestCell.d, getCentroidCell(polygon).d)
    /\ SGt(run.bestCell.d, BBoxCell(polygon).d)

-----------------------------------------------------------------------------
(* The sign convention of pointToPolygonDist, against the shapes themselves *)

Open(lo, v, hi) == RLt(RInt(lo), v) /\ RLt(v, RInt(hi))

Closed(lo, v, hi) == RLe(RInt(lo), v) /\ RLe(v, RInt(hi))

\* the point (x, y) is in the interior of the shape the polygon draws
Interior(p, x, y) ==
    CASE p = Square -> Open(0, x, 4) /\ Open(0, y, 4)
      [] p = Holed -> /\ Open(0, x, 4) /\ Open(0, y, 4)
                      /\ ~(Closed(1, x, 3) /\ Closed(1, y, 3))
      [] p = LShape -> \/ Open(0, x, 4) /\ Open(0, y, 2)
                       \/ Open(0, x, 2) /\ Open(0, y, 4)
      [] p = UShape -> /\ Open(0, x, 4) /\ Open(0, y, 4)
                       /\ ~(Closed(1, x, 3) /\ RLe(RInt(1), y))
      [] p = Wide -> Open(-1, x, 2) /\ Open(1, y, 3)
      [] p = Triangle -> /\ RLt(RInt(0), x) /\ RLt(RInt(0), y)
                         /\ RLt(RAdd(x, y), RInt(4))
      [] OTHER -> FALSE

\* the segments of the rings, each vertex with the next one
Segments(p) ==
    UNION {{<<p[k][i], p[k][(i % Len(p[k])) + 1]>> : i \in 1..Len(p[k])} : k \in DOMAIN p}

\* (b - a) x (q - a) for the point q = (x, y)
CrossAt(x, y, a, b) ==
    RSub(RMul(RInt(b[1] - a[1]), RSub(y, RInt(a[2]))),
         RMul(RInt(b[2] - a[2]), RSub(x, RInt(a[1]))))

\* (b - a) . (q - a)
DotAt(x, y, a, b) ==
    RAdd(RMul(RInt(b[1] - a[1]), RSub(x, RInt(a[1]))),
         RMul(RInt(b[2] - a[2]), RSub(y, RInt(a[2]))))

LenSq(a, b) == (b[1] - a[1]) * (b[1] - a[1]) + (b[2] - a[2]) * (b[2] - a[2])

\* the point lies on the segment from a to b
OnSegment(x, y, a, b) ==
    /\ a = b => (x = RInt(a[1]) /\ y = RInt(a[2]))
    /\ CrossAt(x, y, a, b).n = 0
    /\ RLe(RInt(0), DotAt(x, y, a, b)) /\ RLe(DotAt(x, y, a, b), RInt(LenSq(a, b)))

\* the squared distance of the point to the segment, by the foot of the
\* perpendicular: the height of the triangle a, b, q where the foot lies
\* between a and b, the distance to the nearer end where it does not
HeightSq(x, y, a, b) ==
    IF RLe(DotAt(x, y, a, b), RInt(0)) THEN DistSq(x, y, RInt(a[1]), RInt(a[2]))
    ELSE IF RLe(RInt(LenSq(a, b)), DotAt(x, y, a, b))
    THEN DistSq(x, y, RInt(b[1]), RInt(b[2]))
    ELSE RDiv(Sq(CrossAt(x, y, a, b)), RInt(LenSq(a, b)))

\* the square of a surd of at most one term
Squared(s) ==
    IF s = {} THEN RInt(0)
    ELSE RMul(Sq((CHOOSE t \in s : TRUE).c), RInt((CHOOSE t \in s : TRUE).m))

\* C6: pointToPolygonDist is positive for a point in the interior of the
\* polygon (inside the outer ring and outside every hole), negative for a
\* point outside, zero for a point on an edge, and its absolute value is the
\* distance to the nearest edge of any ring; so also for points level with a
\* vertex and for points on the edges.
SignConvention ==
    probed # NoProbe =>
        /\ Cardinality(probed[1]) <= 1
        /\ Squared(probed[1]) =
              RMinOf({HeightSq(probe[1], probe[2], e[1], e[2]) : e \in Segments(polygon)})
        /\ SSign(probed[1]) =
              IF \E e \in Segments(polygon) : OnSegment(probe[1], probe[2], e[1], e[2])
              THEN 0
              ELSE IF Interior(polygon, probe[1], probe[2]) THEN 1 ELSE -1

\* the centre of the hole, inside the outer ring, is at -1
SignConventionReached ==
    /\ polygon = Holed /\ probe = <<RInt(2), RInt(2)>>
    /\ probed = <<SRat(RInt(-1))>>

-----------------------------------------------------------------------------
(* Properties of a call, continued                                         *)

Falsy(arg) == arg = <<>> \/ arg[1].n = 0

\* C7 as the specification states it: the precision a call works with is
\* always positive, and is 1 for every argument that is missing or not
\* positive.
PrecisionPositive ==
    run.pc # "call" =>
        /\ run.precision.n > 0
        /\ (precisionArg = <<>> \/ precisionArg[1].n <= 0) => run.precision = RInt(1)

\* C7: a call without a precision argument or with the argument 0 works with
\* the precision 1 and returns what the call with the argument 1 returns; any
\* other argument, positive or negative, is the precision the call works
\* with, so the precision is positive unless the argument is negative.
PrecisionDefault ==
    run.pc # "call" =>
        /\ Falsy(precisionArg) =>
              /\ run.precision = RInt(1)
              /\ Returned => run.result = polylabel(polygon, <<RInt(1)>>, debug).result
        /\ ~Falsy(precisionArg) => run.precision = precisionArg[1]
        /\ run.precision.n > 0 <=> (Falsy(precisionArg) \/ precisionArg[1].n > 0)

\* a call with the argument 0 has searched with the precision 1 and returned
PrecisionDefaultReached ==
    /\ Returned /\ polygon = LShape /\ precisionArg = <<RInt(0)>>
    /\ run.precision = RInt(1) /\ popped # EmptyBag

Silent(r) == [r EXCEPT !.log = <<>>]

\* C8: the call with debug and the call without are in the same state after
\* every step but for the log: the same queue, best cell, number of probes and
\* result; and only the call with debug writes to the log.
DebugInvisible ==
    /\ Silent(run) = Silent(twin)
    /\ IF debug THEN twin.log = <<>> ELSE run.log = <<>>

\* a call with debug that logged a better cell and returned what its twin did
DebugInvisibleReached ==
    /\ Returned /\ NonDegenerate /\ debug
    /\ Len(run.log) > 2 /\ twin.log = <<>>
    /\ twin.pc = "done" /\ twin.result = run.result

\* the four quarters of the square of a cell
Quarters(cell) ==
    {Cell(cx, cy, RMul(cell.h, Rat(1, 2)), pointToPolygonDist(cx, cy, polygon)) :
        cx \in {RSub(cell.x, RMul(cell.h, Rat(1, 2))), RAdd(cell.x, RMul(cell.h, Rat(1, 2)))},
        cy \in {RSub(cell.y, RMul(cell.h, Rat(1, 2))), RAdd(cell.y, RMul(cell.h, Rat(1, 2)))}}

\* C9: an iteration removes the popped cell from the queue.  If its max minus
\* the d of the best cell, as updated in that iteration, is at most the
\* precision, the cell is discarded and nothing is added; otherwise exactly
\* four cells are added, of half size h/2 and centred at (x +- h/2, y +- h/2),
\* inside the square of the popped cell; the other cells of the queue stay as
\* they are.
FrontierStep ==
    (run.pc = "loop" /\ run'.pc = "loop") =>
        LET cell == run.cellQueue[1]
            rest == SeqToBag(run.cellQueue) (-) SetToBag({cell})
        IN  /\ popped' = popped (+) SetToBag({cell})
            /\ IF SLe(SSub(cell.max, run'.bestCell.d), SRat(run.precision))
               THEN /\ SeqToBag(run'.cellQueue) = rest
                    /\ discarded' = discarded \cup {cell}
               ELSE /\ SeqToBag(run'.cellQueue) = rest (+) SetToBag(Quarters(cell))
                    /\ Cardinality(Quarters(cell)) = 4
                    /\ \A c \in Quarters(cell) :
                          /\ InSquare(<<RSub(c.x, c.h), RSub(c.y, c.h)>>, cell)
                          /\ InSquare(<<RAdd(c.x, c.h), RAdd(c.y, c.h)>>, cell)
                    /\ discarded' = discarded

\* every cell is pushed once and popped at most once, and exactly once by the
\* time the call returns
FrontierCounts ==
    run.pc # "call" =>
        /\ pushed = popped (+) SeqToBag(run.cellQueue)
        /\ \A c \in BagToSet(pushed) : pushed[c] = 1
        /\ discarded \subseteq BagToSet(popped)
        /\ Returned => popped = pushed

FrontierDiscipline == [][FrontierStep]_vars /\ []FrontierCounts

\* a call that split some cells, discarded others and returned
FrontierDisciplineReached ==
    /\ Returned /\ NonDegenerate
    /\ discarded # {} /\ discarded # BagToSet(popped)
    /\ popped = pushed

\* C10: during the search every point of the bounding box lies in a cell of
\* the queue or in a discarded cell, and every discarded cell has max <= the
\* d of the best cell plus the precision.
Covered ==
    (run.pc # "call" /\ NonDegenerate) =>
        /\ \A q \in BBoxLattice : \E c \in QueueCells \cup discarded : InSquare(q, c)
        /\ \A c \in discarded : SLe(c.max, SAdd(run.bestCell.d, SRat(run.precision)))

\* in the middle of a search, with cells in the queue and cells discarded
CoveredReached ==
    /\ run.pc = "loop" /\ polygon = Wide
    /\ QueueCells # {} /\ discarded # {}
    /\ \E c \in QueueCells : c.h # Rat(CellSize(polygon), 2)

=============================================================================
